---------------------------- MODULE Spec2Model ----------------------------
(***************************************************************************)
(* Model of src/bot.py: the Telegram support bot's conversation router     *)
(* (handle_message), the ticket qualification flow (start_qualification,   *)
(* handle_ticket_response), the ticket dispatcher (send_ticket_to_support) *)
(* and the per-chat session store (chat_histories, ticket_states).         *)
(*                                                                         *)
(* A text is a sequence of tokens (words, the blank SP, the bot's handle   *)
(* MENTION, escalation tags).  str.strip, str.replace, str.lower and the   *)
(* regular-expression search are computed on these sequences.              *)
(* Python's None is the empty sequence <<>>; an optional object is a       *)
(* sequence of length at most one.                                         *)
(***************************************************************************)
EXTENDS Integers, Sequences, FiniteSets, TLC

VARIABLES
    chat_histories,    \* dict chat_id -> list of turns            (bot.py:90)
    ticket_states,     \* dict chat_id -> ticket state             (bot.py:135)
    SUPPORT_GROUP_ID,  \* <<>> when the environment variable is unset (bot.py:22)
    h,                 \* the handle_message coroutine the application is running
    parked,            \* a handle_message coroutine suspended at an await (optional)
    ctx                \* the call of get_recent_context under study (optional)

vars == <<chat_histories, ticket_states, SUPPORT_GROUP_ID, h, parked, ctx>>

-----------------------------------------------------------------------------
(* Bounds *)

\* Total number of user/model exchanges kept over all histories.
MaxExchanges == 2

\* The chat identities (message.chat_id).
Chats == {1, 2}

-----------------------------------------------------------------------------
(* Tokens and string functions *)

SP == " "
BOT_USERNAME == "NtwSosBot"
MENTION == "@NtwSosBot"

\* str.lower on one token.
LowerTok(tok) ==
    CASE tok = "STOP" -> "stop"
      [] tok = "Never" -> "never"
      [] tok = "Technical" -> "technical"
      [] OTHER -> tok

\* str.lower
Lower(text) == [i \in 1..Len(text) |-> LowerTok(text[i])]

RECURSIVE LStrip(_)
LStrip(text) ==
    IF text # <<>> /\ Head(text) = SP THEN LStrip(Tail(text)) ELSE text

RECURSIVE RStrip(_)
RStrip(text) ==
    IF text # <<>> /\ text[Len(text)] = SP
    THEN RStrip(SubSeq(text, 1, Len(text) - 1))
    ELSE text

\* str.strip
Strip(text) == RStrip(LStrip(text))

\* message.text.replace(f"@{BOT_USERNAME}", "")
RemoveMention(text) == SelectSeq(text, LAMBDA tok : tok # MENTION)

\* f"@{BOT_USERNAME}" in message.text
Mentioned(text) == \E i \in 1..Len(text) : text[i] = MENTION

-----------------------------------------------------------------------------
(* Ticket system tables *)

CATEGORY_LABELS ==
    [commission |-> "Commission Issue",
     technical |-> "Technical Issue",
     account |-> "Account Issue",
     copy_trading |-> "Copy Trading Issue",
     general |-> "General Support"]

QUALIFICATION_QUESTIONS ==
    [commission |-> <<"What is the email address on your IB account?",
                      "Which client or date range is this about?",
                      "What amount did you expect vs what you see in your dashboard?">>,
     technical |-> <<"What page or feature were you using when the issue happened?",
                     "What exactly happened? (error message, blank screen, etc.)">>,
     account |-> <<"What is the email address on your account?",
                   "Describe what you need help with in one message.">>,
     copy_trading |-> <<"Are you trying to follow a trader or set up as a Master?",
                        "What specifically is the issue? (can't follow, error, no results, etc.)">>,
     general |-> <<"Give me a quick summary of what you need help with so I can pass it to our team.">>]

\* The keywords of handle_ticket_response, as token sequences.
CANCEL_KEYWORDS ==
    { <<"cancel">>, <<"nevermind">>, <<"never", SP, "mind">>, <<"stop">>, <<"exit">> }

\* The fixed replies of the bot.
INTRO == "I want to make sure our support team has everything they need to help you quickly. Let me ask a couple of questions."
CANCEL_ACK == <<"No problem, ticket cancelled. You can ask me anything else or just start over.">>
DM_CONTINUE == <<"Please DM me directly to continue with your support ticket.">>
TICKET_CONFIRM == <<"Got it! I have passed your details to our support team.">>
TICKET_FALLBACK == <<"I was not able to submit your ticket right now. Please reach out directly to support@ntwmarkets.com">>
APOLOGY == <<"Sorry, something went wrong. Please try again.">>
DM_ESCALATE == <<"I think our support team can help with this. Please send me a direct message">>
REACH_OUT == <<"I think our support team can help with this. Please reach out to support@ntwmarkets.com">>

-----------------------------------------------------------------------------
(* Escalation tag *)

\* group(1) of ESCALATE_PATTERN on one token; "" when the token is no match
\* (\w+ needs at least one word character).
TagGroup(tok) ==
    CASE tok = "[ESCALATE:commission]" -> "commission"
      [] tok = "[ESCALATE:Technical]" -> "Technical"
      [] tok = "[ESCALATE:bogus]" -> "bogus"
      [] tok = "[ESCALATE:general]" -> "general"
      [] OTHER -> ""

\* ESCALATE_PATTERN.search(reply): the group of the leftmost match, as an
\* optional value.
EscalateSearch(reply) ==
    LET hits == { i \in 1..Len(reply) : TagGroup(reply[i]) # "" }
    IN  IF hits = {} THEN <<>>
        ELSE <<TagGroup(reply[CHOOSE i \in hits : \A j \in hits : i <= j])>>

\* The category looked up without lower().
EscalateCategory_NoLower(group) ==
    IF group \in DOMAIN QUALIFICATION_QUESTIONS THEN group ELSE "general"

\* category = match.group(1).lower(); "general" when it is no key of
\* QUALIFICATION_QUESTIONS.
EscalateCategory(group) ==
    LET category == LowerTok(group)
    IN  IF category \in DOMAIN QUALIFICATION_QUESTIONS THEN category ELSE "general"


-----------------------------------------------------------------------------
(* Dictionaries *)

\* d[k] = v on a dict
DictSet(d, k, v) == [x \in DOMAIN d \cup {k} |-> IF x = k THEN v ELSE d[x]]

\* del d[k]
DictDel(d, k) == [x \in DOMAIN d \ {k} |-> d[x]]

\* d.get(k, default)
DictGet(d, k, default) == IF k \in DOMAIN d THEN d[k] ELSE default

Min(a, b) == IF a <= b THEN a ELSE b

-----------------------------------------------------------------------------
(* Ticket state machine *)

\* start_qualification, called with a user object: the new ticket_states.
\* (With user = None the evaluation of user.id raises before the
\* assignment; the router models that case.)
start_qualification(ts, chat_id, category, original_query, user, context_lines) ==
    LET questions == IF category \in DOMAIN QUALIFICATION_QUESTIONS
                     THEN QUALIFICATION_QUESTIONS[category]
                     ELSE QUALIFICATION_QUESTIONS["general"]
    IN  DictSet(ts, chat_id,
                [category |-> category,
                 questions |-> questions,
                 answers |-> <<>>,
                 current_q |-> 0,
                 original_query |-> original_query,
                 user_id |-> user.id,
                 username |-> user.username,
                 first_name |-> user.first_name,
                 context |-> context_lines])

\* The text start_qualification returns: intro + questions[0].
FirstQuestion(state) == <<INTRO, state.questions[1]>>

\* The keyword test without lower().
IsCancel_CaseSensitive(user_text) == Strip(user_text) \in CANCEL_KEYWORDS

\* user_text.lower().strip() in ("cancel", "nevermind", "never mind", "stop", "exit")
IsCancel(user_text) == Strip(Lower(user_text)) \in CANCEL_KEYWORDS

\* handle_ticket_response that also stores the answer as the original query.
handle_ticket_response_OverwritesQuery(ts, chat_id, user_text) ==
    IF chat_id \notin DOMAIN ts
    THEN [ret |-> <<>>, ts |-> ts]
    ELSE IF Strip(Lower(user_text)) \in CANCEL_KEYWORDS
    THEN [ret |-> CANCEL_ACK, ts |-> DictDel(ts, chat_id)]
    ELSE LET state == ts[chat_id]
             recorded == [state EXCEPT !.answers = Append(@, user_text),
                                       !.current_q = @ + 1,
                                       !.original_query = <<"re:">> \o user_text]
         IN  [ret |-> IF recorded.current_q < Len(recorded.questions)
                      THEN <<recorded.questions[recorded.current_q + 1]>>
                      ELSE <<>>,
              ts |-> DictSet(ts, chat_id, recorded)]

\* handle_ticket_response that acknowledges a cancellation and keeps the state.
handle_ticket_response_CancelKeeps(ts, chat_id, user_text) ==
    IF chat_id \notin DOMAIN ts
    THEN [ret |-> <<>>, ts |-> ts]
    ELSE IF Strip(Lower(user_text)) \in CANCEL_KEYWORDS
    THEN [ret |-> CANCEL_ACK, ts |-> ts]
    ELSE LET state == ts[chat_id]
             recorded == [state EXCEPT !.answers = Append(@, user_text),
                                       !.current_q = @ + 1]
         IN  [ret |-> IF recorded.current_q < Len(recorded.questions)
                      THEN <<recorded.questions[recorded.current_q + 1]>>
                      ELSE <<>>,
              ts |-> DictSet(ts, chat_id, recorded)]

\* handle_ticket_response that records the answer without advancing current_q.
handle_ticket_response_NoIncrement(ts, chat_id, user_text) ==
    IF chat_id \notin DOMAIN ts
    THEN [ret |-> <<>>, ts |-> ts]
    ELSE IF Strip(Lower(user_text)) \in CANCEL_KEYWORDS
    THEN [ret |-> CANCEL_ACK, ts |-> DictDel(ts, chat_id)]
    ELSE LET state == ts[chat_id]
             recorded == [state EXCEPT !.answers = Append(@, user_text)]
         IN  [ret |-> IF recorded.current_q < Len(recorded.questions)
                      THEN <<recorded.questions[recorded.current_q + 1]>>
                      ELSE <<>>,
              ts |-> DictSet(ts, chat_id, recorded)]

\* handle_ticket_response: [ret |-> the returned message (<<>> for None),
\*                          ts  |-> ticket_states after the call].
handle_ticket_response(ts, chat_id, user_text) ==
    IF chat_id \notin DOMAIN ts
    THEN [ret |-> <<>>, ts |-> ts]
    ELSE IF IsCancel(user_text)
    THEN [ret |-> CANCEL_ACK, ts |-> DictDel(ts, chat_id)]
    ELSE LET state == ts[chat_id]
             recorded == [state EXCEPT !.answers = Append(@, user_text),
                                       !.current_q = @ + 1]
         IN  [ret |-> IF recorded.current_q < Len(recorded.questions)
                      THEN <<recorded.questions[recorded.current_q + 1]>>
                      ELSE <<>>,
              ts |-> DictSet(ts, chat_id, recorded)]

\* build_ticket_message whose details stop one pair short.
build_ticket_message_DropsLast(state) ==
    [category_label |-> DictGet(CATEGORY_LABELS, state.category, state.category),
     username_display |-> IF state.username # "" THEN "@" \o state.username
                          ELSE "No username",
     name_display |-> IF state.first_name # "" THEN state.first_name ELSE "Unknown",
     user_id |-> state.user_id,
     original_query |-> state.original_query,
     details |-> [i \in 1..(Min(Len(state.questions), Len(state.answers)) - 1) |->
                     [Q |-> state.questions[i], A |-> state.answers[i]]],
     context |-> state.context]

\* build_ticket_message, without the render-time timestamp.
build_ticket_message(state) ==
    [category_label |-> DictGet(CATEGORY_LABELS, state.category, state.category),
     username_display |-> IF state.username # "" THEN "@" \o state.username
                          ELSE "No username",
     name_display |-> IF state.first_name # "" THEN state.first_name ELSE "Unknown",
     user_id |-> state.user_id,
     original_query |-> state.original_query,
     details |-> [i \in 1..Min(Len(state.questions), Len(state.answers)) |->
                     [Q |-> state.questions[i], A |-> state.answers[i]]],
     context |-> state.context]

-----------------------------------------------------------------------------
(* Session store *)

\* The default of get_recent_context's max_turns.
MAX_TURNS == 3
\* The length after which get_recent_context truncates a text.
TRUNC_LEN == 200

\* seq[-n:] of Python, n >= 0 (seq[-0:] is the whole sequence).
LastSlice(seq, n) ==
    IF n = 0 \/ n >= Len(seq) THEN seq ELSE SubSeq(seq, Len(seq) - n + 1, Len(seq))

\* One line of get_recent_context for a turn with text.
ContextLine(entry) ==
    LET label == IF entry.role = "user" THEN "User:" ELSE "Bot:"
        text == IF Len(entry.parts) > TRUNC_LEN
                THEN SubSeq(entry.parts, 1, TRUNC_LEN) \o <<"...">>
                ELSE entry.parts
    IN  <<label>> \o text

RECURSIVE ContextLines(_)
ContextLines(entries) ==
    IF entries = <<>> THEN <<>>
    ELSE IF Head(entries).parts # <<>>
         THEN <<ContextLine(Head(entries))>> \o ContextLines(Tail(entries))
         ELSE ContextLines(Tail(entries))

get_recent_context(ch, chat_id, max_turns) ==
    ContextLines(LastSlice(DictGet(ch, chat_id, <<>>), max_turns * 2))

\* chat_histories.setdefault(chat_id, [])                      (line 256)
HistorySetDefault(ch, chat_id) ==
    IF chat_id \in DOMAIN ch THEN ch ELSE DictSet(ch, chat_id, <<>>)

\* The rest of get_gemini_response once chat.send_message has returned or
\* raised: chat_histories after the call.  out.raises names where the call
\* raised: "send_message" (line 259, nothing persisted), "text" (line 264,
\* after chat.history was persisted at line 262), "" when it returned.
get_gemini_response(ch, chat_id, user_message, out) ==
    IF out.raises = "send_message" THEN ch
    ELSE DictSet(ch, chat_id,
                 ch[chat_id] \o <<[role |-> "user", parts |-> user_message],
                                  [role |-> "model", parts |-> out.text]>>)

-----------------------------------------------------------------------------
(* Inbound messages and generator outcomes *)

\* message.from_user of the messages that have one.
ANN == [id |-> 7, username |-> "ann", first_name |-> "Ann"]

REPLY_TO_BOT == <<[from_user |-> <<[username |-> BOT_USERNAME]>>]>>
REPLY_TO_OTHER == <<[from_user |-> <<[username |-> "bob"]>>]>>
REPLY_TO_CHANNEL_POST == <<[from_user |-> <<>>]>>

Msg(c, private, text, reply_to, from_user) ==
    [chat |-> c, is_private |-> private, text |-> text,
     reply_to |-> reply_to, from_user |-> from_user]

\* The updates the transport delivers to handle_message: every kind of
\* message for chat 1, and for chat 2 the kinds that reach the ticket flow
\* and the response generator.
Messages ==
    { Msg(1, TRUE, <<>>, <<>>, <<ANN>>),
      Msg(1, TRUE, <<SP, MENTION, SP>>, <<>>, <<ANN>>),
      Msg(1, TRUE, <<"hi">>, <<>>, <<>>),
      Msg(1, FALSE, <<"hi">>, <<>>, <<ANN>>),
      Msg(1, FALSE, <<"hi">>, REPLY_TO_OTHER, <<ANN>>),
      Msg(1, FALSE, <<"hi">>, REPLY_TO_CHANNEL_POST, <<ANN>>),
      Msg(1, FALSE, <<"hi">>, REPLY_TO_BOT, <<ANN>>),
      Msg(1, FALSE, <<MENTION, SP>>, <<>>, <<ANN>>),
      Msg(1, FALSE, <<MENTION, SP, "STOP">>, <<>>, <<ANN>>) }
    \cup UNION { { Msg(c, TRUE, <<"hi">>, <<>>, <<ANN>>),
                   Msg(c, TRUE, <<SP, "STOP", SP>>, <<>>, <<ANN>>),
                   Msg(c, FALSE, <<MENTION, SP, "hi">>, <<>>, <<ANN>>) } : c \in Chats }

\* The texts the response generator returns.
Replies ==
    { <<"ok">>,
      <<"[ESCALATE:commission]">>,
      <<"[ESCALATE:Technical]">>,
      <<"[ESCALATE:bogus]">>,
      <<"see", SP, "[ESCALATE:general]">> }

\* What a call of the response generator does: it raises in
\* chat.send_message, it raises in response.text, or it returns a text.
GeminiOutcomes ==
    { [raises |-> "send_message", text |-> <<>>], [raises |-> "text", text |-> <<>>] }
    \cup { [raises |-> "", text |-> r] : r \in Replies }

-----------------------------------------------------------------------------
(* handle_message *)

NoMessage == Msg(0, TRUE, <<>>, <<>>, <<>>)

\* The coroutine's frame.  pc: "idle" (none started), "gemini" (inside the
\* blocking call of get_gemini_response), "send" (awaiting bot.send_message
\* in send_ticket_to_support), "reply" (awaiting message.reply_text),
\* "done" (returned), "raised" (ended by an uncaught exception).
\* gem is the generator's outcome for this message, state the ticket state
\* popped on completion, pending the text being replied, replies the texts
\* replied, sink the tickets delivered to the support group, attempts the
\* calls of send_ticket_to_support.  hist0 and t0 record the chat's history
\* and ticket state when the message arrived.
Frame(m) ==
    [pc |-> "idle", msg |-> m, user_text |-> <<>>, gem |-> <<>>, state |-> <<>>,
     pending |-> <<>>, replies |-> <<>>, sink |-> <<>>, attempts |-> 0,
     hist0 |-> IF m.chat \in DOMAIN chat_histories THEN chat_histories[m.chat] ELSE <<>>,
     t0 |-> IF m.chat \in DOMAIN ticket_states THEN <<ticket_states[m.chat]>> ELSE <<>>]

\* Every chat taken for a one-to-one chat.
IsPrivate_Always(m) == TRUE

\* is_private = message.chat.type == "private"               (line 279)
IsPrivate(m) == m.is_private

\* replied_to_bot of handle_message (lines 284-288)
RepliedToBot(m) ==
    /\ m.reply_to # <<>>
    /\ m.reply_to[1].from_user # <<>>
    /\ m.reply_to[1].from_user[1].username = BOT_USERNAME

\* The gate taking any reply for a reply to the bot.
PassesGate_AnyReply(m) ==
    /\ m.text # <<>>
    /\ m.is_private \/ Mentioned(m.text) \/ m.reply_to # <<>>

\* The early returns of lines 275-290: the message has a text and passes
\* the group gate.
PassesGate(m) ==
    /\ m.text # <<>>
    /\ IsPrivate(m) \/ Mentioned(m.text) \/ RepliedToBot(m)

\* user_text of line 292
UserText(m) == Strip(RemoveMention(m.text))

Exchanges == LET Half(c) == Len(chat_histories[c]) \div 2
                 RECURSIVE Sum(_)
                 Sum(S) == IF S = {} THEN 0
                           ELSE LET c == CHOOSE x \in S : TRUE
                                IN  Half(c) + Sum(S \ {c})
             IN  Sum(DOMAIN chat_histories)

\* The test of line 338 without the configuration.
Actionable_IgnoresConfig(match, support_group_id) == match # <<>>

\* match and SUPPORT_GROUP_ID                                  (line 338)
Actionable(match, support_group_id) == match # <<>> /\ support_group_id # <<>>

\* The pop written as ticket_states.clear().
PopTicket_Clear(ts, chat_id) == <<>>

\* A read of the ticket state that leaves it in the dict.
PopTicket_Keep(ts, chat_id) == ts

\* ticket_states.pop(chat_id): the dict without the key        (line 311)
PopTicket(ts, chat_id) == DictDel(ts, chat_id)

\* The application hands the next update to handle_message once the
\* previous call has ended (Application.builder() default, line 371).
CanStart == h.pc \in {"idle", "done", "raised"}

\* Lines 274-294: the message is dropped.
HandleDropped(m) ==
    /\ CanStart
    /\ ~PassesGate(m) \/ UserText(m) = <<>>
    /\ h' = [Frame(m) EXCEPT !.pc = "done"]
    /\ UNCHANGED <<chat_histories, ticket_states, SUPPORT_GROUP_ID, parked, ctx>>

\* Lines 296-326 up to the first await: a ticket is active for the chat.
HandleTicket(m) ==
    /\ CanStart
    /\ PassesGate(m)
    /\ UserText(m) # <<>>
    /\ m.chat \in DOMAIN ticket_states
    /\ LET f == [Frame(m) EXCEPT !.user_text = UserText(m)]
           r == handle_ticket_response(ticket_states, m.chat, UserText(m))
       IN  IF ~IsPrivate(m)
           THEN /\ h' = [f EXCEPT !.pc = "reply", !.pending = DM_CONTINUE]
                /\ UNCHANGED ticket_states
           ELSE IF r.ret # <<>>
           THEN /\ h' = [f EXCEPT !.pc = "reply", !.pending = r.ret]
                /\ ticket_states' = r.ts
           ELSE \* state = ticket_states.pop(chat_id)
                /\ h' = [f EXCEPT !.pc = "send", !.state = <<r.ts[m.chat]>>]
                /\ ticket_states' = PopTicket(r.ts, m.chat)
    /\ UNCHANGED <<chat_histories, SUPPORT_GROUP_ID, parked, ctx>>

\* The router without the test of line 297 on the way to the generator.
HandleNormal_NoTicketCheck(m) ==
    /\ CanStart
    /\ PassesGate(m)
    /\ UserText(m) # <<>>
    /\ Exchanges < MaxExchanges
    /\ h' = [Frame(m) EXCEPT !.pc = "gemini", !.user_text = UserText(m)]
    /\ chat_histories' = HistorySetDefault(chat_histories, m.chat)
    /\ UNCHANGED <<ticket_states, SUPPORT_GROUP_ID, parked, ctx>>

\* Lines 328-330 and 256-259: no ticket is active; the handler enters the
\* blocking call of the response generator.
HandleNormal(m) ==
    /\ CanStart
    /\ PassesGate(m)
    /\ UserText(m) # <<>>
    /\ m.chat \notin DOMAIN ticket_states
    /\ Exchanges < MaxExchanges
    /\ h' = [Frame(m) EXCEPT !.pc = "gemini", !.user_text = UserText(m)]
    /\ chat_histories' = HistorySetDefault(chat_histories, m.chat)
    /\ UNCHANGED <<ticket_states, SUPPORT_GROUP_ID, parked, ctx>>

\* Lines 259-264 and 329-367 up to the await: the generator call ends and
\* its result is interpreted.
GeminiReturn(out) ==
    /\ h.pc = "gemini"
    /\ LET chat_id == h.msg.chat
           f == [h EXCEPT !.gem = <<out>>]
           ch == get_gemini_response(chat_histories, chat_id, h.user_text, out)
           match == EscalateSearch(out.text)
       IN  /\ chat_histories' = ch
           /\ IF out.raises # ""
              THEN /\ h' = [f EXCEPT !.pc = "reply", !.pending = APOLOGY]
                   /\ UNCHANGED ticket_states
              ELSE IF Actionable(match, SUPPORT_GROUP_ID)
              THEN IF ~IsPrivate(h.msg)
                   THEN /\ h' = [f EXCEPT !.pc = "reply", !.pending = DM_ESCALATE]
                        /\ UNCHANGED ticket_states
                   ELSE IF h.msg.from_user = <<>>
                   THEN \* user.id raises AttributeError in start_qualification
                        /\ h' = [f EXCEPT !.pc = "raised"]
                        /\ UNCHANGED ticket_states
                   ELSE LET ts == start_qualification(
                                      ticket_states, chat_id, EscalateCategory(match[1]),
                                      h.user_text, h.msg.from_user[1],
                                      get_recent_context(ch, chat_id, MAX_TURNS))
                        IN  /\ ticket_states' = ts
                            /\ h' = [f EXCEPT !.pc = "reply",
                                              !.pending = FirstQuestion(ts[chat_id])]
              ELSE IF match # <<>>
              THEN /\ h' = [f EXCEPT !.pc = "reply", !.pending = REACH_OUT]
                   /\ UNCHANGED ticket_states
              ELSE /\ h' = [f EXCEPT !.pc = "reply", !.pending = out.text]
                   /\ UNCHANGED ticket_states
    /\ UNCHANGED <<SUPPORT_GROUP_ID, parked, ctx>>

\* send_ticket_to_support (lines 217-229) and lines 312-325 up to the
\* await: delivered says whether bot.send_message returns or raises.
SendTicket(delivered) ==
    /\ h.pc = "send"
    /\ LET sent == SUPPORT_GROUP_ID # <<>> /\ delivered
       IN  h' = [h EXCEPT !.pc = "reply",
                          !.attempts = @ + 1,
                          !.sink = IF sent THEN Append(@, build_ticket_message(h.state[1]))
                                   ELSE @,
                          !.pending = IF sent THEN TICKET_CONFIRM ELSE TICKET_FALLBACK]
    /\ UNCHANGED <<chat_histories, ticket_states, SUPPORT_GROUP_ID, parked, ctx>>

\* await message.reply_text(pending)
ReplyText ==
    /\ h.pc = "reply"
    /\ h' = [h EXCEPT !.pc = "done", !.replies = Append(@, h.pending)]
    /\ UNCHANGED <<chat_histories, ticket_states, SUPPORT_GROUP_ID, parked, ctx>>

Init ==
    /\ chat_histories = <<>>
    /\ ticket_states = <<>>
    /\ SUPPORT_GROUP_ID \in {<<>>, <<"-1001">>}
    /\ h = [pc |-> "idle", msg |-> NoMessage, user_text |-> <<>>, gem |-> <<>>,
            state |-> <<>>, pending |-> <<>>, replies |-> <<>>, sink |-> <<>>,
            attempts |-> 0, hist0 |-> <<>>, t0 |-> <<>>]
    /\ parked = <<>>
    /\ ctx = <<>>

Next ==
    \/ \E m \in Messages : HandleDropped(m)
    \/ \E m \in Messages : HandleTicket(m)
    \/ \E m \in Messages : HandleNormal(m)
    \/ \E out \in GeminiOutcomes : GeminiReturn(out)
    \/ \E delivered \in BOOLEAN : SendTicket(delivered)
    \/ ReplyText

Spec == Init /\ [][Next]_vars

-----------------------------------------------------------------------------
(* handle_message calls that overlap *)

\* The frame before handle_message has been called.
IdleFrame ==
    [pc |-> "idle", msg |-> NoMessage, user_text |-> <<>>, gem |-> <<>>,
     state |-> <<>>, pending |-> <<>>, replies |-> <<>>, sink |-> <<>>,
     attempts |-> 0, hist0 |-> <<>>, t0 |-> <<>>]

\* The generator call taken for an awaited call.
AtAwait_Gemini(f) == f.pc \in {"gemini", "send", "reply"}

\* The points where a handle_message coroutine gives up control: the awaits
\* of bot.send_message (line 222) and of message.reply_text (lines 299, 308,
\* 314-325, 333, 346, 357, 360, 367).  get_gemini_response is called without
\* await (line 330), so the coroutine keeps control through it.
AtAwait(f) == f.pc \in {"send", "reply"}

\* The running coroutine is suspended at an await and the event loop is free
\* to start handle_message for the next update.
Park ==
    /\ parked = <<>>
    /\ AtAwait(h)
    /\ parked' = <<h>>
    /\ h' = IdleFrame
    /\ UNCHANGED <<chat_histories, ticket_states, SUPPORT_GROUP_ID, ctx>>

\* The event loop gives control back to the suspended coroutine, when the
\* running one has ended or is itself suspended at an await.
Resume ==
    /\ parked # <<>>
    /\ h.pc \in {"done", "raised"} \/ AtAwait(h)
    /\ h' = parked[1]
    /\ parked' = IF AtAwait(h) THEN <<h>> ELSE <<>>
    /\ UNCHANGED <<chat_histories, ticket_states, SUPPORT_GROUP_ID, ctx>>

\* The updates delivered while handlers may overlap: for chat 1 a message
\* without text, a private text, a private cancel keyword and a group
\* mention; for chat 2 a private text.
ConcMessages ==
    { Msg(1, TRUE, <<>>, <<>>, <<ANN>>),
      Msg(1, TRUE, <<"hi">>, <<>>, <<ANN>>),
      Msg(1, TRUE, <<SP, "STOP", SP>>, <<>>, <<ANN>>),
      Msg(1, FALSE, <<MENTION, SP, "hi">>, <<>>, <<ANN>>),
      Msg(2, TRUE, <<"hi">>, <<>>, <<ANN>>) }

\* What the generator does while handlers may overlap: it raises after the
\* history was persisted, answers, or asks for a ticket of a known or of an
\* unknown category.
ConcOutcomes ==
    { [raises |-> "text", text |-> <<>>],
      [raises |-> "", text |-> <<"ok">>],
      [raises |-> "", text |-> <<"[ESCALATE:commission]">>],
      [raises |-> "", text |-> <<"[ESCALATE:bogus]">>] }

NextConc ==
    \/ \E m \in ConcMessages : HandleDropped(m)
    \/ \E m \in ConcMessages : HandleTicket(m)
    \/ \E m \in ConcMessages : HandleNormal(m)
    \/ \E out \in ConcOutcomes : GeminiReturn(out)
    \/ \E delivered \in BOOLEAN : SendTicket(delivered)
    \/ ReplyText
    \/ Park
    \/ Resume

SpecConc == Init /\ [][NextConc]_vars

-----------------------------------------------------------------------------
(* get_recent_context on its own *)

\* Longest history given to get_recent_context.
MaxHistLen == 3
\* Largest max_turns given to get_recent_context.
MaxTurnsArg == 2

\* A text of n characters.
TextOfLen(n) == [i \in 1..n |-> "x"]

\* The turns of the histories: either role, with no text, a short text, a
\* text of exactly TRUNC_LEN characters and one of TRUNC_LEN + 1.
CtxEntries ==
    { [role |-> r, parts |-> t] :
        r \in {"user", "model"},
        t \in { <<>>, <<"a">>, TextOfLen(TRUNC_LEN), TextOfLen(TRUNC_LEN + 1) } }

CtxHistories == UNION { [1..n -> CtxEntries] : n \in 0..MaxHistLen }

\* Chat 1 has any history, chat 2 has none.
InitCtx ==
    /\ \E hist \in CtxHistories : chat_histories = DictSet(<<>>, 1, hist)
    /\ ticket_states = <<>>
    /\ SUPPORT_GROUP_ID = <<>>
    /\ h = IdleFrame
    /\ parked = <<>>
    /\ ctx = <<>>

\* get_recent_context(chat_id, max_turns) is called.
CallRecentContext(chat_id, max_turns) ==
    /\ ctx = <<>>
    /\ ctx' = <<[chat |-> chat_id, max_turns |-> max_turns,
                 lines |-> get_recent_context(chat_histories, chat_id, max_turns)]>>
    /\ UNCHANGED <<chat_histories, ticket_states, SUPPORT_GROUP_ID, h, parked>>

NextCtx == \E c \in Chats, n \in 0..MaxTurnsArg : CallRecentContext(c, n)

SpecCtx == InitCtx /\ [][NextCtx]_vars

-----------------------------------------------------------------------------
(* Properties *)

\* A ticket state is well formed.
TicketIndexOK(state) ==
    /\ Len(state.answers) = state.current_q
    /\ state.current_q <= Len(state.questions)

\* The history of a chat, empty when the chat has none.
History(c) == IF c \in DOMAIN chat_histories THEN chat_histories[c] ELSE <<>>

\* The text, lower-cased and trimmed, is one of the cancellation keywords.
IsKeyword(text) ==
    Strip(Lower(text)) \in
        { <<"cancel">>, <<"nevermind">>, <<"never", " ", "mind">>, <<"stop">>, <<"exit">> }

\* The frame handles a message that reached the ticket flow of a one-to-one
\* chat: it arrived while the chat had a ticket, and has a text left after
\* stripping.
AnswersTicket ==
    /\ h.pc \in {"send", "reply", "done"}
    /\ h.t0 # <<>>
    /\ h.msg.is_private
    /\ UserText(h.msg) # <<>>

\* The frame handles the answer to the last question of the chat's ticket.
LastAnswer ==
    /\ AnswersTicket
    /\ ~IsKeyword(UserText(h.msg))
    /\ h.t0[1].current_q + 1 = Len(h.t0[1].questions)

\* The frame handles a cancellation keyword sent during a ticket.
Cancels ==
    /\ AnswersTicket
    /\ IsKeyword(UserText(h.msg))

\* The ticket of t0 with the frame's text recorded as its next answer.
Completed ==
    [h.t0[1] EXCEPT !.answers = Append(@, UserText(h.msg)), !.current_q = @ + 1]

\* C1: for every chat with an active ticket the number of recorded answers
\* equals current_q and current_q does not exceed the number of questions;
\* the same holds of the state handle_ticket_response leaves when the last
\* answer is recorded (the state popped for dispatch).
C1_AnswersMatchIndex ==
    /\ \A c \in DOMAIN ticket_states : TicketIndexOK(ticket_states[c])
    /\ h.state # <<>> => TicketIndexOK(h.state[1])

\* C1 witness: a three-question ticket with two answers recorded.
C1_Witness ==
    \E c \in DOMAIN ticket_states :
        /\ Len(ticket_states[c].questions) = Len(QUALIFICATION_QUESTIONS["commission"])
        /\ ticket_states[c].current_q + 1 = Len(ticket_states[c].questions)
        /\ ticket_states[c].answers # <<>>

\* C2: when the answer to the last question is accepted the chat's ticket
\* state is cleared before dispatch, dispatch is attempted exactly once, the
\* ticket delivered is the one just completed, the user is replied the
\* confirmation when it was delivered and the fallback when it was not; and
\* the handling of any other message attempts no dispatch.
C2_DispatchOnce ==
    /\ LastAnswer =>
          /\ h.msg.chat \notin DOMAIN ticket_states
          /\ h.pc = "send" => h.attempts = 0 /\ h.sink = <<>> /\ h.replies = <<>>
          /\ h.pc \in {"reply", "done"} =>
                /\ h.attempts = 1
                /\ h.sink \in {<<>>, <<build_ticket_message(Completed)>>}
                /\ h.pending = IF h.sink # <<>> THEN TICKET_CONFIRM ELSE TICKET_FALLBACK
          /\ h.pc = "done" => h.replies = <<h.pending>>
    /\ ~LastAnswer => h.attempts = 0 /\ h.sink = <<>>

\* C2 witness: a completed ticket whose delivery failed although the support
\* group is configured.
C2_Witness ==
    /\ LastAnswer
    /\ h.pc = "done"
    /\ SUPPORT_GROUP_ID # <<>>
    /\ h.replies = <<TICKET_FALLBACK>>

\* C3: a cancellation keyword sent in a one-to-one chat after j answers of a
\* ticket (j from 0 up to the number of questions minus one) is replied the
\* cancellation acknowledgment, removes the ticket state and sends nothing
\* to the support group.
C3_CancelAnywhere ==
    Cancels =>
        /\ h.pc \in {"reply", "done"}
        /\ h.pending = CANCEL_ACK
        /\ h.pc = "done" => h.replies = <<CANCEL_ACK>>
        /\ h.msg.chat \notin DOMAIN ticket_states
        /\ h.state = <<>>
        /\ h.sink = <<>>
        /\ h.attempts = 0

\* C3 witness: the keyword arrives as the answer to the last of three
\* questions.
C3_Witness ==
    /\ Cancels
    /\ h.pc = "done"
    /\ Len(h.t0[1].questions) = Len(QUALIFICATION_QUESTIONS["commission"])
    /\ h.t0[1].current_q + 1 = Len(h.t0[1].questions)

\* A step in which handle_message is called for a new message.
Arrival == h.pc \in {"idle", "done", "raised"} /\ h' # h

\* The message passes the participation gate and has a text left after the
\* handle is stripped.
Eligible(m) ==
    /\ m.text # <<>>
    /\ m.is_private \/ (\E i \in 1..Len(m.text) : m.text[i] = MENTION) \/ RepliedToBot(m)
    /\ Strip(RemoveMention(m.text)) # <<>>

\* The generator returned a text for the frame's message.
Generated == h.pc \in {"reply", "done", "raised"} /\ h.gem # <<>> /\ h.gem[1].raises = ""

\* The text is exactly one escalation tag.
ExactTag(text) == Len(text) = 1 /\ TagGroup(text[1]) # ""

\* The text holds an escalation tag somewhere.
HasTag(text) == \E i \in 1..Len(text) : TagGroup(text[i]) # ""

\* C4, state part: once a message has completed or cancelled a ticket, the
\* chat has no ticket state.
C4_Cleared == (LastAnswer \/ Cancels) => h.msg.chat \notin DOMAIN ticket_states

\* C4, step part: an eligible message of a chat without ticket state goes to
\* the response generator and records nothing in any ticket; and a chat
\* without ticket state gets one only when the generator returns for a
\* message of that chat.
C4_NormalPath ==
    /\ (Arrival /\ Eligible(h'.msg) /\ h'.msg.chat \notin DOMAIN ticket_states)
          => h'.pc = "gemini" /\ ticket_states' = ticket_states
    /\ \A c \in Chats :
          (c \notin DOMAIN ticket_states /\ c \in DOMAIN ticket_states')
             => h.pc = "gemini" /\ h.msg.chat = c

\* C4: after a ticket reaches completion or cancellation the chat has no
\* ticket state, it stays without one until the generator returns for a
\* later message of the chat, and the next eligible message of the chat is
\* passed to the response generator and not recorded as an answer.
C4_CleanupThenNormal == []C4_Cleared /\ [][C4_NormalPath]_vars

\* C4 witness: a ticket has just been completed or cancelled and the chat's
\* next message can be taken by the normal path.
C4_Witness ==
    /\ LastAnswer \/ Cancels
    /\ h.pc = "done"
    /\ ENABLED (\E m \in Messages : m.chat = h.msg.chat /\ HandleNormal(m))

\* C5: a generator output that is not exactly one escalation tag is relayed
\* unchanged and starts no ticket.
C5_ExactTagOnly ==
    (Generated /\ h.pc \in {"reply", "done"} /\ ~ExactTag(h.gem[1].text)) =>
        /\ h.pending = h.gem[1].text
        /\ h.msg.chat \notin DOMAIN ticket_states

\* C6: when the generator call raises, the user is replied one apology, the
\* chat's history holds the turns it held when the message arrived and the
\* chat has no ticket state.
C6_FailureLeavesHistory ==
    (h.pc \in {"reply", "done"} /\ h.gem # <<>> /\ h.gem[1].raises # "") =>
        /\ h.pending = APOLOGY
        /\ h.pc = "done" => h.replies = <<APOLOGY>>
        /\ History(h.msg.chat) = h.hist0
        /\ h.msg.chat \notin DOMAIN ticket_states

\* C7, state part: the frame of a dropped message has returned, having
\* replied nothing and sent nothing to the support group.
C7_Silent ==
    (h.pc # "idle" /\ ~Eligible(h.msg)) =>
        /\ h.pc = "done"
        /\ h.replies = <<>> /\ h.pending = <<>>
        /\ h.sink = <<>> /\ h.attempts = 0

\* C7, step part: the arrival of a dropped message changes no history and
\* no ticket state.
C7_NoChange ==
    (Arrival /\ ~Eligible(h'.msg)) =>
        chat_histories' = chat_histories /\ ticket_states' = ticket_states

\* C7: a message dropped by the router (no mention and no reply to the bot
\* in a multi-party chat, or no text left after stripping) produces no
\* outbound action and changes no chat's history and no ticket state.
C7_DroppedNoEffect == []C7_Silent /\ [][C7_NoChange]_vars

\* C7 witness: a multi-party message replying to somebody else was dropped
\* while a ticket and a history exist.
C7_Witness ==
    /\ h.pc = "done"
    /\ ~h.msg.is_private
    /\ h.msg.reply_to = REPLY_TO_OTHER
    /\ h.replies = <<>>
    /\ ticket_states # <<>>
    /\ \E c \in DOMAIN chat_histories : chat_histories[c] # <<>>

\* Every qualification question.
AllQuestions ==
    UNION { { QUALIFICATION_QUESTIONS[k][i] : i \in 1..Len(QUALIFICATION_QUESTIONS[k]) }
            : k \in DOMAIN QUALIFICATION_QUESTIONS }

\* C8: when the support group is not configured no chat has a ticket state,
\* every generator output holding an escalation tag is replied the fixed
\* "reach out to support" text, no qualification question is asked and
\* nothing is sent to the support group.
C8_NoSinkNoTicket ==
    SUPPORT_GROUP_ID = <<>> =>
        /\ ticket_states = <<>>
        /\ h.state = <<>> /\ h.sink = <<>> /\ h.attempts = 0
        /\ \A i \in 1..Len(h.pending) : h.pending[i] \notin AllQuestions \cup {INTRO}
        /\ (Generated /\ HasTag(h.gem[1].text)) =>
              /\ h.pc \in {"reply", "done"}
              /\ h.pending = REACH_OUT
              /\ h.pc = "done" => h.replies = <<REACH_OUT>>

\* C8 witness: an exact escalation tag was answered with the fallback.
C8_Witness ==
    /\ SUPPORT_GROUP_ID = <<>>
    /\ Generated /\ ExactTag(h.gem[1].text)
    /\ h.pc = "done"
    /\ h.replies = <<REACH_OUT>>

\* C9, state part: an escalation tag produced for a multi-party message is
\* replied the instruction to continue privately and starts no ticket; a
\* multi-party message arriving during a ticket is replied the instruction
\* and leaves the ticket as it was; no frame of a multi-party message holds
\* a popped ticket.
C9_GroupRejected ==
    /\ (Generated /\ ~h.msg.is_private /\ HasTag(h.gem[1].text) /\ SUPPORT_GROUP_ID # <<>>)
          => /\ h.pending = DM_ESCALATE
             /\ h.msg.chat \notin DOMAIN ticket_states
    /\ (h.pc # "idle" /\ ~h.msg.is_private /\ Eligible(h.msg) /\ h.t0 # <<>>)
          => /\ h.pending = DM_CONTINUE
             /\ h.msg.chat \in DOMAIN ticket_states
             /\ ticket_states[h.msg.chat] = h.t0[1]
    /\ ~h.msg.is_private => h.state = <<>> /\ h.sink = <<>>

\* C9, step part: a ticket state is created only while a one-to-one message
\* of that chat is handled, it is changed or removed only by the arrival of
\* a one-to-one message of that chat, and an answer recorded is the text of
\* that message.
C9_PrivateOnly ==
    /\ \A c \in Chats :
          (c \notin DOMAIN ticket_states /\ c \in DOMAIN ticket_states')
             => h.msg.is_private /\ h.msg.chat = c
    /\ \A c \in DOMAIN ticket_states :
          (c \notin DOMAIN ticket_states' \/ ticket_states'[c] # ticket_states[c])
             => /\ Arrival /\ h'.msg.is_private /\ h'.msg.chat = c
                /\ c \in DOMAIN ticket_states' =>
                      ticket_states'[c] =
                          [ticket_states[c] EXCEPT
                              !.answers = Append(@, Strip(RemoveMention(h'.msg.text))),
                              !.current_q = @ + 1]

C10_OtherChatsProceed ==
    h.pc = "gemini" =>
        \A c \in Chats \ {h.msg.chat} :
            ENABLED (\E m \in Messages :
                        /\ m.chat = c
                        /\ HandleDropped(m) \/ HandleTicket(m) \/ HandleNormal(m))

\* The ticket state of a chat as an optional value.
TicketOf(c) == IF c \in DOMAIN ticket_states THEN <<ticket_states[c]>> ELSE <<>>

\* C13, state part: a ticket popped for dispatch holds at least one answer
\* and as many answers as questions, its last answer is the text of the
\* message that completed it, and the ticket delivered pairs each question
\* with the answer at the same position and carries the original query.
C13_Complete ==
    /\ h.state # <<>> =>
          /\ Len(h.state[1].answers) >= 1
          /\ Len(h.state[1].answers) = Len(h.state[1].questions)
          /\ h.t0 # <<>>
          /\ h.state[1].answers = Append(h.t0[1].answers, Strip(RemoveMention(h.msg.text)))
          /\ h.state[1].original_query = h.t0[1].original_query
    /\ h.sink # <<>> =>
          /\ h.state # <<>>
          /\ Len(h.sink[1].details) = Len(h.state[1].questions)
          /\ \A i \in 1..Len(h.sink[1].details) :
                /\ h.sink[1].details[i].Q = h.state[1].questions[i]
                /\ h.sink[1].details[i].A = h.state[1].answers[i]
          /\ h.sink[1].original_query = h.state[1].original_query

\* C13, step part: a ticket starts without answers and with the text of the
\* message being handled as its original query; while it exists the only
\* change to it is that the text of an arriving message, which is no
\* cancellation keyword, is appended to its answers.
C13_InOrder ==
    \A c \in Chats :
        /\ (TicketOf(c) = <<>> /\ TicketOf(c)' # <<>>) =>
              /\ h.msg.chat = c
              /\ ticket_states'[c].answers = <<>>
              /\ ticket_states'[c].original_query = Strip(RemoveMention(h.msg.text))
        /\ (TicketOf(c) # <<>> /\ TicketOf(c)' # <<>> /\ TicketOf(c)' # TicketOf(c)) =>
              /\ h'.msg.chat = c
              /\ ~IsKeyword(Strip(RemoveMention(h'.msg.text)))
              /\ ticket_states'[c] =
                    [ticket_states[c] EXCEPT
                        !.answers = Append(@, Strip(RemoveMention(h'.msg.text))),
                        !.current_q = @ + 1]

KnownCategories == {"commission", "technical", "account", "copy_trading", "general"}

\* The category a tag token stands for: the known category it equals up to
\* letter case, general for every other token.
ExpectedCategory(token) ==
    CASE token \in {"commission", "Commission", "COMMISSION"} -> "commission"
      [] token \in {"technical", "Technical", "TECHNICAL"} -> "technical"
      [] token \in {"account", "Account", "ACCOUNT"} -> "account"
      [] token \in {"copy_trading", "Copy_Trading", "COPY_TRADING"} -> "copy_trading"
      [] OTHER -> "general"

\* The frame has started a ticket for its message.
StartedTicket ==
    /\ Generated /\ h.pc \in {"reply", "done"}
    /\ Len(h.pending) > 1 /\ h.pending[1] = INTRO

\* C14: the category of every ticket state is a known category and its
\* questions are that category's list; a ticket started for a tag has the
\* known category the tag's token equals up to letter case, and general
\* (with its single question) for any other token.
C14_KnownCategory ==
    /\ \A c \in DOMAIN ticket_states :
          /\ ticket_states[c].category \in KnownCategories
          /\ ticket_states[c].questions = QUALIFICATION_QUESTIONS[ticket_states[c].category]
    /\ (StartedTicket /\ ExactTag(h.gem[1].text)) =>
          /\ h.msg.chat \in DOMAIN ticket_states
          /\ ticket_states[h.msg.chat].category = ExpectedCategory(TagGroup(h.gem[1].text[1]))
          /\ h.pending = <<INTRO, QUALIFICATION_QUESTIONS[
                                     ExpectedCategory(TagGroup(h.gem[1].text[1]))][1]>>

\* C14 witness: a tag whose token differs from a known category in letter
\* case started a ticket.
C14_Witness ==
    /\ StartedTicket
    /\ h.gem[1].text = <<"[ESCALATE:Technical]">>
    /\ h.pc = "done"

\* The handling of the frame's message has ended.
Ended == h.pc \in {"done", "raised"}

\* C15: the handling of a message without sender identity never ends by an
\* exception; the message is dropped: nothing is replied, nothing is sent to
\* the support group, the chat's history and ticket state are those it had
\* when the message arrived.
C15_NoSenderDropped ==
    (Ended /\ h.msg # NoMessage /\ h.msg.from_user = <<>>) =>
        /\ h.pc = "done"
        /\ h.replies = <<>> /\ h.sink = <<>>
        /\ History(h.msg.chat) = h.hist0
        /\ TicketOf(h.msg.chat) = h.t0

\* C16: the handling of every eligible message ends with exactly one reply
\* to its chat; a ticket is sent to the support group only by the handling
\* of the last answer of a ticket, with the support group configured.
C16_OneReply ==
    /\ (Ended /\ Eligible(h.msg)) => Len(h.replies) = 1
    /\ (h.pc = "done" /\ ~Eligible(h.msg)) => h.replies = <<>>
    /\ h.sink # <<>> => LastAnswer /\ SUPPORT_GROUP_ID # <<>>

\* The turns are user, model, user, model, ...
Alternates(history) ==
    /\ Len(history) % 2 = 0
    /\ \A i \in 1..Len(history) :
          history[i].role = IF i % 2 = 1 THEN "user" ELSE "model"

\* C17: when the generator call of the frame's message succeeded the chat's
\* history is the history at arrival followed by the user's turn and the
\* generator's turn; on every other path it is the history at arrival; every
\* history alternates user and model turns.
C17_AppendOnly ==
    /\ (h.pc \in {"reply", "done", "raised"} /\ h.msg # NoMessage) =>
          History(h.msg.chat) =
              IF h.gem # <<>> /\ h.gem[1].raises = ""
              THEN h.hist0 \o <<[role |-> "user", parts |-> Strip(RemoveMention(h.msg.text))],
                                [role |-> "model", parts |-> h.gem[1].text]>>
              ELSE h.hist0
    /\ \A c \in DOMAIN chat_histories : Alternates(chat_histories[c])

\* The fields of a ticket state that are set when it starts.
FixedFields(state) ==
    [category |-> state.category, questions |-> state.questions,
     original_query |-> state.original_query, user_id |-> state.user_id,
     username |-> state.username, first_name |-> state.first_name,
     context |-> state.context]

\* C19, state part: the frame of a message that arrived while its chat had
\* a ticket never calls the response generator and leaves the chat's history
\* as it was; the ticket it pops has the fixed fields it had at arrival.
C19_NoGenerator ==
    (h.pc # "idle" /\ h.t0 # <<>>) =>
        /\ h.pc # "gemini" /\ h.gem = <<>>
        /\ History(h.msg.chat) = h.hist0
        /\ h.state # <<>> => FixedFields(h.state[1]) = FixedFields(h.t0[1])

\* C19, step part: as long as a ticket state exists its category, question
\* list, original query, submitter and context snapshot do not change, and
\* no step that changes or removes a ticket state changes a history.
C19_FixedFields ==
    \A c \in Chats :
        /\ (TicketOf(c) # <<>> /\ TicketOf(c)' # <<>>) =>
              FixedFields(ticket_states'[c]) = FixedFields(ticket_states[c])
        /\ (TicketOf(c) # <<>> /\ TicketOf(c)' # TicketOf(c)) =>
              chat_histories' = chat_histories

\* C19: while a chat has an active ticket, handling a message of the chat
\* never calls the response generator and leaves the chat's history
\* unchanged, and the ticket's category, question list, original query,
\* submitter and context snapshot stay unchanged until it is cleared.
C19_TicketFrame == []C19_NoGenerator /\ [][C19_FixedFields]_vars

\* C19 witness: the last answer of a three-question ticket has been handled
\* in a chat with a history.
C19_Witness ==
    /\ LastAnswer
    /\ h.pc = "done"
    /\ Len(h.state[1].questions) = Len(QUALIFICATION_QUESTIONS["commission"])
    /\ h.hist0 # <<>>

\* C20: a step of the handling of a message of one chat leaves the history
\* and the ticket state of every other chat unchanged.
C20_OtherChatsUntouched ==
    [][\A c \in Chats \ {h'.msg.chat} :
          /\ History(c)' = History(c)
          /\ (c \in DOMAIN chat_histories') = (c \in DOMAIN chat_histories)
          /\ TicketOf(c)' = TicketOf(c)]_vars

\* C20 witness: a message of one chat has been answered by the generator
\* while the other chat has a history and a ticket with an answer.
C20_Witness ==
    /\ h.pc = "done" /\ h.gem # <<>>
    /\ \E c \in Chats \ {h.msg.chat} :
          /\ History(c) # <<>>
          /\ TicketOf(c) # <<>>
          /\ ticket_states[c].answers # <<>>

\* The turns get_recent_context may draw from: the last 2 * max_turns.
RecentTurns(history, max_turns) ==
    SubSeq(history, Len(history) - Min(Len(history), 2 * max_turns) + 1, Len(history))

\* The line of a turn: its label, then its text, cut after TRUNC_LEN
\* characters and marked when it was longer.
LineOK(line, turn) ==
    /\ line[1] = IF turn.role = "user" THEN "User:" ELSE "Bot:"
    /\ IF Len(turn.parts) > TRUNC_LEN
       THEN /\ Len(line) = TRUNC_LEN + 2
            /\ SubSeq(line, 2, TRUNC_LEN + 1) = SubSeq(turn.parts, 1, TRUNC_LEN)
            /\ line[TRUNC_LEN + 2] = "..."
       ELSE Tail(line) = turn.parts

\* C12: get_recent_context returns at most 2 * max_turns lines, also for
\* max_turns = 0; the lines are those of the last 2 * max_turns turns that
\* have a text, in order, each cut to TRUNC_LEN characters plus the marker;
\* a turn without text gives no line.
C12_ContextBounded ==
    ctx # <<>> =>
        LET turns == SelectSeq(RecentTurns(History(ctx[1].chat), ctx[1].max_turns),
                               LAMBDA t : t.parts # <<>>)
            lines == ctx[1].lines
        IN  /\ Len(lines) <= 2 * ctx[1].max_turns
            /\ Len(lines) = Len(turns)
            /\ \A i \in 1..Len(lines) : LineOK(lines[i], turns[i])

\* A step in which handle_message is called for a new message, while
\* another call may be suspended.
Started == h.pc \in {"idle", "done", "raised"} /\ parked' = parked /\ h' # h

\* A step that changes a history or a ticket state.
StateAccess == chat_histories' # chat_histories \/ ticket_states' # ticket_states

\* C11, state part: a suspended handler has made all its reads and writes,
\* and between the arrival of a message and the return of the generator for
\* it the chat's history and ticket state are the ones the handler read on
\* arrival.
C11_Segment ==
    /\ parked # <<>> => parked[1].pc \in {"send", "reply"}
    /\ h.pc = "gemini" =>
          /\ History(h.msg.chat) = h.hist0
          /\ TicketOf(h.msg.chat) = h.t0

\* C11, step part: the state is read and written only in the step that
\* starts a handler and in the generator's return for the same message, with
\* no step of another handler in between and none after; such a step touches
\* the state of its own chat only; and an accepted answer is appended to the
\* ticket state the chat has at that moment, whose current_q advances by
\* exactly one.
C11_Atomic ==
    /\ StateAccess =>
          /\ Started \/ (h.pc = "gemini" /\ h'.msg = h.msg)
          /\ parked' = parked
          /\ \A c \in Chats \ {h'.msg.chat} :
                History(c)' = History(c) /\ TicketOf(c)' = TicketOf(c)
    /\ h.pc = "gemini" =>
          /\ parked' = parked
          /\ h'.msg = h.msg /\ h'.hist0 = h.hist0 /\ h'.gem # <<>>
    /\ (Started /\ h'.t0 # <<>> /\ h'.msg.is_private /\ h'.user_text # <<>>
          /\ ~IsKeyword(h'.user_text)) =>
          LET c == h'.msg.chat
              after == IF c \in DOMAIN ticket_states' THEN ticket_states'[c]
                       ELSE h'.state[1]
          IN  /\ h'.t0 = TicketOf(c)
              /\ after.current_q = ticket_states[c].current_q + 1
              /\ after.answers = Append(ticket_states[c].answers, h'.user_text)

\* C11: handlers of the same chat that overlap are serialized with respect
\* to the chat's state.  Each handler's reads and writes form one
\* uninterrupted segment, so the accesses of two overlapping handlers are
\* never interleaved, current_q advances by exactly one per accepted answer
\* and the state reached is the one of handling the messages one after the
\* other in the order of their segments.
C11_Serialized == []C11_Segment /\ [][C11_Atomic]_vars

\* C11 witness: two answers of one chat are being handled at the same time,
\* the first handler still awaiting its reply when the second has recorded
\* its answer; the ticket holds both, at index two.
C11_Witness ==
    /\ parked # <<>> /\ parked[1].pc = "reply" /\ h.pc = "reply"
    /\ parked[1].msg.chat = h.msg.chat
    /\ parked[1].t0 # <<>> /\ parked[1].t0[1].current_q = 0
    /\ h.t0 # <<>> /\ h.t0[1].current_q = 1
    /\ h.msg.chat \in DOMAIN ticket_states
    /\ ticket_states[h.msg.chat].current_q = 2
    /\ ticket_states[h.msg.chat].answers = <<parked[1].user_text, h.user_text>>

\* The answers of a ticket state extend those of another.
Extends(new, old) ==
    /\ Len(new.answers) >= Len(old.answers)
    /\ SubSeq(new.answers, 1, Len(old.answers)) = old.answers
    /\ new.current_q >= old.current_q

\* C18, state part: the generator, from which alone start_qualification is
\* reached, runs only for a message that found no ticket state for its chat,
\* and the chat still has none while it runs; a handler that started a
\* ticket is one that found none.
C18_NoneWhenExamined ==
    /\ h.pc = "gemini" => h.t0 = <<>> /\ h.msg.chat \notin DOMAIN ticket_states
    /\ \A f \in {h} \cup {parked[i] : i \in DOMAIN parked} :
          (f.gem # <<>> /\ f.pending # <<>> /\ f.pending[1] = INTRO) => f.t0 = <<>>

\* C18, step part: a ticket state appears only for a chat that has none, and
\* it is new (no answers, index zero); a ticket state that exists is only
\* extended by answers or removed, never replaced.
C18_NeverReplaced ==
    \A c \in Chats :
        /\ (TicketOf(c) = <<>> /\ TicketOf(c)' # <<>>) =>
              /\ h.pc = "gemini" /\ h.msg.chat = c
              /\ ticket_states'[c].answers = <<>>
              /\ ticket_states'[c].current_q = 0
        /\ (TicketOf(c) # <<>> /\ TicketOf(c)' # <<>>) =>
              /\ FixedFields(ticket_states'[c]) = FixedFields(ticket_states[c])
              /\ Extends(ticket_states'[c], ticket_states[c])

\* C18: the router never starts a ticket for a chat that has one:
\* start_qualification is reached only for a message that found no ticket
\* state, so over any sequence and any interleaving of messages a ticket in
\* progress and its answers are never overwritten by a new ticket.
C18_NoRestart == []C18_NoneWhenExamined /\ [][C18_NeverReplaced]_vars

\* C18 witness: the handler that started the chat's ticket is still awaiting
\* its reply while two later messages of the chat, each examined with the
\* ticket active, have been handled as its first and second answers.
C18_Witness ==
    /\ parked # <<>> /\ parked[1].pc = "reply"
    /\ parked[1].gem # <<>> /\ parked[1].pending[1] = INTRO
    /\ h.msg.chat = parked[1].msg.chat
    /\ h.pc = "done" /\ h.t0 # <<>> /\ h.t0[1].answers # <<>>
    /\ h.msg.chat \in DOMAIN ticket_states
    /\ Len(ticket_states[h.msg.chat].answers) = 2

=============================================================================
